---- MODULE Spec2Model ----
(***************************************************************************)
(* A model of blog_generator.py: the static blog generator that renders    *)
(* markdown posts to blog/<name>.html and keeps the blog section of        *)
(* index.html in step with them.                                           *)
(*                                                                         *)
(* Text is modelled by what the code does with it:                         *)
(*   - a file name or a link is a sequence of one-character strings, so    *)
(*     that str.replace, Path.name and Path.stem are computed, not assumed;*)
(*   - a date string is a record [fmt, n]: fmt = "iso" is "YYYY-MM-DD",    *)
(*     fmt = "disp" is "Month DD, YYYY" and fmt = "raw" is a text that is  *)
(*     neither.  Day n is the n-th of January 2024 (years have four        *)
(*     digits, so strftime and strptime agree on them).                    *)
(*   - the blog section of index.html is its h2 heading (if any), whether  *)
(*     a text node follows the heading, and its article.blog-post elements *)
(*     in document order.                                                  *)
(***************************************************************************)
EXTENDS Integers, Sequences, FiniteSets, TLC

VARIABLES sources, blog, index, last

vars == <<sources, blog, index, last>>

----------------------------------------------------------------------------
(* Bounds of the model. *)

\* Valid calendar days are 1..MaxDay.
MaxDay == 2
\* The posts directory holds at most this many markdown files.
MaxSources == 2
\* rebuild_blog_section is given at most this many posts.
MaxRebuild == 2
\* The names of SpecNames have a stem of at most this many characters.
MaxStem == 4

----------------------------------------------------------------------------
(* Strings as sequences of characters. *)

DotMd == <<".", "m", "d">>
DotHtml == <<".", "h", "t", "m", "l">>
BlogDir == <<"b", "l", "o", "g", "/">>

\* str.replace(old, new): every non-overlapping occurrence, left to right.
RECURSIVE StrReplace(_, _, _)
StrReplace(s, old, new) ==
    IF Len(s) < Len(old) THEN s
    ELSE IF SubSeq(s, 1, Len(old)) = old
         THEN new \o StrReplace(SubSeq(s, Len(old) + 1, Len(s)), old, new)
         ELSE <<Head(s)>> \o StrReplace(Tail(s), old, new)

\* str.rfind(c), 1-based; 0 when c does not occur.
RFind(s, c) ==
    LET hits == {i \in 1..Len(s) : s[i] = c}
    IN  IF hits = {} THEN 0 ELSE CHOOSE i \in hits : \A j \in hits : j <= i

\* Path(p).name: what follows the last "/".
PathName(p) == SubSeq(p, RFind(p, "/") + 1, Len(p))

\* Path(p).stem: the name up to its last ".", unless that "." is the first
\* or the last character of the name.
PathStem(p) ==
    LET name == PathName(p)
        i == RFind(name, ".")
    IN  IF 1 < i /\ i < Len(name) THEN SubSeq(name, 1, i - 1) ELSE name

\* glob('*.md') / glob('*.html'): the name ends with the extension.
EndsWith(s, ext) ==
    Len(s) >= Len(ext) /\ SubSeq(s, Len(s) - Len(ext) + 1, Len(s)) = ext

\* BlogPost.html_filename
HtmlFilename(filename) == StrReplace(filename, DotMd, DotHtml)

\* BlogPost.url
Url(filename) == BlogDir \o HtmlFilename(filename)

----------------------------------------------------------------------------
(* Date strings. *)

Iso(n) == [fmt |-> "iso", n |-> n]
Disp(n) == [fmt |-> "disp", n |-> n]
\* A text that is no date in either format: "draft".
Raw == [fmt |-> "raw", n |-> 0]

Days == 1..MaxDay
DateStrs == {Iso(n) : n \in Days} \cup {Disp(n) : n \in Days} \cup {Raw}

\* datetime.strptime(s, '%Y-%m-%d') succeeds
IsIsoDate(s) == s.fmt = "iso"

\* datetime.strptime(s, '%B %d, %Y') succeeds
IsDisplayDate(s) == s.fmt = "disp"

\* format_date
FormatDate(s) == IF IsIsoDate(s) THEN Disp(s.n) ELSE s

\* parse_display_date
ParseDisplayDate(s) == IF IsDisplayDate(s) THEN Iso(s.n) ELSE s

\* The characters of the date strings, in the order of their code points.
Ascii ==
    <<" ", ",", "-", "0", "1", "2", "3", "4", "5", "6", "7", "8", "9",
      "J", "a", "d", "f", "n", "r", "t", "u", "y">>

\* ord(ch), up to the order it gives
Ord(ch) == CHOOSE i \in 1..Len(Ascii) : Ascii[i] = ch

\* %d of strftime: the day in two digits
TwoDigits(n) == <<Ascii[(n \div 10) + 4], Ascii[(n % 10) + 4]>>

\* The text of a date string: "2024-01-dd", "January dd, 2024", and "draft"
\* for the text that is no date.
DateText(s) ==
    IF s.fmt = "iso"
    THEN <<"2", "0", "2", "4", "-", "0", "1", "-">> \o TwoDigits(s.n)
    ELSE IF s.fmt = "disp"
    THEN <<"J", "a", "n", "u", "a", "r", "y", " ">> \o TwoDigits(s.n)
            \o <<",", " ", "2", "0", "2", "4">>
    ELSE <<"d", "r", "a", "f", "t">>

\* a < b on Python strings: the first differing character decides, and a
\* proper prefix is smaller.
RECURSIVE TextLess(_, _)
TextLess(a, b) ==
    IF b = <<>> THEN FALSE
    ELSE IF a = <<>> THEN TRUE
    ELSE IF Head(a) = Head(b) THEN TextLess(Tail(a), Tail(b))
    ELSE Ord(Head(a)) < Ord(Head(b))

\* p.date < q.date, the comparison of the keys of posts.sort
DateLess(s, t) == TextLess(DateText(s), DateText(t))

----------------------------------------------------------------------------
(* Posts and the index document. *)

\* The metadata defaults of parse_markdown_file make every field a string.
NewPost(filename, title, date, description) ==
    [filename |-> filename, title |-> title, date |-> date,
     description |-> description]

\* An article that has no <time> element.
NoTime == [fmt |-> "none", n |-> 0]

\* The <article class="blog-post"> built for a post: an <h3><a href=url>
\* title</a></h3>, a <time> with the formatted date and, when the description
\* is not empty, a <p> (desc = "" stands for no <p>).
NewArticle(post) ==
    [href |-> Url(post.filename), title |-> post.title,
     time |-> FormatDate(post.date), desc |-> post.description]

\* index.html: whether the file exists, whether it has <section id="blog">,
\* whether the section has an <h2>, whether a text node follows the <h2>,
\* and the section's articles in document order.
IndexDoc(file, section, heading, h2text, entries) ==
    [file |-> file, section |-> section, heading |-> heading,
     h2text |-> h2text, entries |-> entries]

NoIndexFile == IndexDoc(FALSE, FALSE, FALSE, FALSE, <<>>)
NoBlogSection == IndexDoc(TRUE, FALSE, FALSE, FALSE, <<>>)

\* Tag.insert_before, Tag.replace_with and Tag.append on the article list.
InsertBefore(entries, i, e) ==
    SubSeq(entries, 1, i - 1) \o <<e>> \o SubSeq(entries, i, Len(entries))
ReplaceWith(entries, i, e) == [entries EXCEPT ![i] = e]

\* soup.prettify(): every element goes on a line of its own, so a text node
\* follows the heading when the file is parsed again.
Prettify(doc) == [doc EXCEPT !.h2text = doc.heading]

\* get_existing_blog_posts_from_html: the articles that have a link, keyed by
\* Path(href).name; of two articles with one key the later one stays.
ExistingPosts(doc) ==
    LET linked == {i \in 1..Len(doc.entries) : doc.entries[i].href # <<>>}
        key(i) == PathName(doc.entries[i].href)
    IN  IF ~doc.file \/ ~doc.section THEN <<>>
        ELSE [f \in {key(i) : i \in linked} |->
                CHOOSE i \in linked :
                    key(i) = f /\ \A j \in linked : key(j) = f => j <= i]

\* A scan that gives up at the first article whose date does not parse.
RECURSIVE ScanEarlierAbort(_, _, _)
ScanEarlierAbort(entries, i, newDay) ==
    IF i > Len(entries) THEN 0
    ELSE LET t == entries[i].time
             x == ParseDisplayDate(t)
         IN  IF t = NoTime \/ ~IsIsoDate(x) THEN 0
             ELSE IF newDay > x.n THEN i
             ELSE ScanEarlierAbort(entries, i + 1, newDay)

\* The insertion scan: the first article, in document order, whose date parses
\* and is strictly earlier than the new post's; 0 when there is none.  An
\* article without <time>, or whose date does not parse (ValueError:
\* continue), is passed over.
RECURSIVE ScanEarlier(_, _, _)
ScanEarlier(entries, i, newDay) ==
    IF i > Len(entries) THEN 0
    ELSE LET t == entries[i].time
             x == ParseDisplayDate(t)
         IN  IF t = NoTime THEN ScanEarlier(entries, i + 1, newDay)
             ELSE IF ~IsIsoDate(x) THEN ScanEarlier(entries, i + 1, newDay)
             ELSE IF newDay > x.n THEN i
             ELSE ScanEarlier(entries, i + 1, newDay)

\* h2 and h2.next_sibling
H2HasNextSibling(doc) == doc.heading /\ (doc.h2text \/ doc.entries # <<>>)

\* A fallback that always appends at the end of the section.
InsertPlaceAtEnd(doc, post) ==
    IF IsIsoDate(post.date) /\ ScanEarlier(doc.entries, 1, post.date.n) # 0
    THEN ScanEarlier(doc.entries, 1, post.date.n)
    ELSE Len(doc.entries) + 1

\* The no-match branch of add_or_update_blog_post on the parsed tree: the
\* place the new article takes among the section's articles.
InsertPlace(doc, post) ==
    IF IsIsoDate(post.date)
    THEN LET hit == ScanEarlier(doc.entries, 1, post.date.n)
         IN  IF hit # 0 THEN hit
             ELSE IF H2HasNextSibling(doc) THEN 1
             ELSE Len(doc.entries) + 1
    ELSE Len(doc.entries) + 1

Outcome(doc, terminal, report, writes, at, other) ==
    [index |-> doc, terminal |-> terminal, report |-> report,
     writes |-> writes, at |-> at, other |-> other]

\* add_or_update_blog_post.  soup is the tree this call parses and writes
\* back; the articles of existing_posts are nodes of the second tree that
\* get_existing_blog_posts_from_html parses from the same file ("other").
AddOrUpdate(doc, post) ==
    IF ~doc.file THEN Outcome(doc, "Failed", "missing index", 0, 0, doc)
    ELSE IF ~doc.section THEN Outcome(doc, "Failed", "missing section", 0, 0, doc)
    ELSE LET soup == doc
             soup2 == doc
             existing == ExistingPosts(doc)
             new == NewArticle(post)
             name == HtmlFilename(post.filename)
         IN  IF name \in DOMAIN existing
             THEN LET replaced ==
                        [soup2 EXCEPT !.entries =
                            ReplaceWith(soup2.entries, existing[name], new)]
                  IN  Outcome(Prettify(soup), "Persisted", "updated", 1,
                              existing[name], replaced)
             ELSE LET at == InsertPlace(soup, post)
                      grown == [soup EXCEPT !.entries =
                                   InsertBefore(soup.entries, at, new)]
                  IN  Outcome(Prettify(grown), "Persisted",
                              IF IsIsoDate(post.date) THEN "added"
                              ELSE "added at end",
                              1, at, soup2)

\* A rebuild that does not clear the section first.
RebuildSectionKeepEntries(doc, posts) ==
    IF ~doc.file THEN Outcome(doc, "Failed", "missing index", 0, 0, doc)
    ELSE IF ~doc.section THEN Outcome(doc, "Failed", "missing section", 0, 0, doc)
    ELSE Outcome([doc EXCEPT !.h2text = FALSE,
                             !.entries = doc.entries \o
                                 [i \in 1..Len(posts) |-> NewArticle(posts[i])]],
                 "Persisted", "rebuilt", 1, 0, doc)

\* A rebuild that writes the file although it found no blog section.
RebuildSectionUnchecked(doc, posts) ==
    IF ~doc.file THEN Outcome(doc, "Failed", "missing index", 0, 0, doc)
    ELSE Outcome([doc EXCEPT !.section = TRUE, !.h2text = FALSE,
                             !.entries = [i \in 1..Len(posts) |-> NewArticle(posts[i])]],
                 "Persisted", "rebuilt", 1, 0, doc)

\* rebuild_blog_section: the section is cleared, its h2 put back, one article
\* appended per post, and str(soup) written (no text nodes are added).
RebuildSection(doc, posts) ==
    IF ~doc.file THEN Outcome(doc, "Failed", "missing index", 0, 0, doc)
    ELSE IF ~doc.section THEN Outcome(doc, "Failed", "missing section", 0, 0, doc)
    ELSE Outcome([doc EXCEPT !.h2text = FALSE,
                             !.entries = [i \in 1..Len(posts) |-> NewArticle(posts[i])]],
                 "Persisted", "rebuilt", 1, 0, doc)

----------------------------------------------------------------------------
(* The inputs the model draws from. *)

MdName(stem) == stem \o DotMd

\* Markdown file names: two plain ones and two whose stem itself holds an
\* extension (a.md.md, a.html.md).
FileNames ==
    {MdName(<<"a">>), MdName(<<"b">>),
     MdName(<<"a">> \o DotMd), MdName(<<"a">> \o DotHtml)}

\* Title and description of a post: one without and one with a description.
PostTexts ==
    {[title |-> "T1", description |-> ""], [title |-> "T2", description |-> "D"]}
\* The date of a post's frontmatter: a valid ISO date or some other text.
PostDates == {Iso(n) : n \in Days} \cup {Raw}

Posts ==
    {NewPost(f, t.title, d, t.description) :
        f \in FileNames, t \in PostTexts, d \in PostDates}

\* Articles written by hand into index.html: one without a link, whose date
\* is some other text, and one without a <time>.
HandNoLink == [href |-> <<>>, title |-> "T1", time |-> Raw, desc |-> ""]
HandNoTime ==
    [href |-> Url(MdName(<<"b">>)), title |-> "T1", time |-> NoTime, desc |-> ""]

\* The index.html the site starts with.
InitIndexes ==
    {NoIndexFile, NoBlogSection,
     IndexDoc(TRUE, TRUE, FALSE, FALSE, <<>>),
     IndexDoc(TRUE, TRUE, TRUE, FALSE, <<>>),
     IndexDoc(TRUE, TRUE, TRUE, TRUE, <<>>),
     IndexDoc(TRUE, TRUE, TRUE, TRUE, <<HandNoLink>>),
     IndexDoc(TRUE, TRUE, TRUE, TRUE, <<HandNoTime>>)}

\* The index.html of a site that has no posts yet.
EmptyIndexes == {doc \in InitIndexes : doc.entries = <<>>}

\* What the last command did: the operation, the index it found, the posts
\* generate_blog_post rendered in it, how its index update ended, the place
\* of the article it touched and, for --verify, the value returned.
Did(op, pre, rendered, r, result) ==
    [op |-> op, pre |-> pre, rendered |-> rendered, terminal |-> r.terminal,
     report |-> r.report, writes |-> r.writes, at |-> r.at, result |-> result]

\* A command that never reached an index update.
NoUpdate(doc, report) == Outcome(doc, "none", report, 0, 0, doc)

Nothing == Did("none", NoIndexFile, <<>>, NoUpdate(NoIndexFile, "none"), FALSE)

----------------------------------------------------------------------------
(* The reconciler alone: add_or_update_blog_post called with any post. *)

AddOrUpdateBlogPost(post) ==
    LET r == AddOrUpdate(index, post)
    IN  /\ index' = r.index
        /\ last' = Did("add", index, <<>>, r, FALSE)
        /\ UNCHANGED <<sources, blog>>

InitReconcile ==
    /\ sources = {}
    /\ blog = {}
    /\ index \in InitIndexes
    /\ last = Nothing

NextReconcile == \E post \in Posts : AddOrUpdateBlogPost(post)

SpecReconcile == InitReconcile /\ [][NextReconcile]_vars

----------------------------------------------------------------------------
(* The reconciler with rebuild_blog_section: posts of one date. *)

SmallPosts ==
    {NewPost(f, t.title, Iso(1), t.description) :
        f \in FileNames, t \in PostTexts}

\* Lists of at most n posts with distinct source file names.
RECURSIVE PostLists(_, _)
PostLists(pool, n) ==
    IF n = 0 THEN {<<>>}
    ELSE LET shorter == PostLists(pool, n - 1)
             fresh(l) ==
                 {p \in pool : \A i \in 1..Len(l) : l[i].filename # p.filename}
         IN  shorter \cup
             UNION {{Append(l, p) : p \in fresh(l)} : l \in shorter}

\* The posts rebuild_blog_section is called with: one per file name, with
\* and without a description.
RebuildPool ==
    {NewPost(MdName(<<"a">>), "T1", Iso(1), ""),
     NewPost(MdName(<<"b">>), "T2", Iso(1), "D"),
     NewPost(MdName(<<"a">> \o DotMd), "T1", Iso(1), ""),
     NewPost(MdName(<<"a">> \o DotHtml), "T2", Iso(1), "D")}

RebuildLists == PostLists(RebuildPool, MaxRebuild)

RebuildBlogSection(posts) ==
    LET r == RebuildSection(index, posts)
    IN  /\ index' = r.index
        /\ last' = Did("rebuild", index, <<>>, r, FALSE)
        /\ UNCHANGED <<sources, blog>>

NextRebuild ==
    \/ \E post \in SmallPosts : AddOrUpdateBlogPost(post)
    \/ \E posts \in RebuildLists : RebuildBlogSection(posts)

SpecRebuild == InitReconcile /\ [][NextRebuild]_vars

----------------------------------------------------------------------------
(* The whole site: the posts directory, the blog directory and index.html. *)

\* What a markdown file holds when it is read (the user may have edited it
\* since the last run).
SiteContents ==
    {[text |-> [title |-> "T1", description |-> ""], date |-> Iso(1)],
     [text |-> [title |-> "T2", description |-> "D"], date |-> Iso(MaxDay)]}

\* The markdown files of the site: a plain name and two that render to one
\* output name.
SiteFiles ==
    {MdName(<<"a">>), MdName(<<"a">> \o DotMd), MdName(<<"a">> \o DotHtml)}

\* parse_markdown_file on a readable file
ParseMarkdownFile(f, c) == NewPost(f, c.text.title, c.date, c.text.description)

\* A sort that keeps one post per date.
RECURSIVE SortByDateDescLossy(_)
SortByDateDescLossy(ps) ==
    IF ps = <<>> THEN <<>>
    ELSE LET rest == SortByDateDescLossy(Tail(ps))
             h == Head(ps)
             k == Cardinality({i \in 1..Len(rest) :
                                  DateLess(h.date, rest[i].date)})
         IN  IF \E i \in 1..Len(rest) : rest[i].date = h.date THEN rest
             ELSE SubSeq(rest, 1, k) \o <<h>> \o SubSeq(rest, k + 1, Len(rest))

\* posts.sort(key=lambda p: p.date, reverse=True): a stable sort on the date
\* strings, so posts of one date keep the order they were appended in.
RECURSIVE SortByDateDesc(_)
SortByDateDesc(ps) ==
    IF ps = <<>> THEN <<>>
    ELSE LET rest == SortByDateDesc(Tail(ps))
             h == Head(ps)
             k == Cardinality({i \in 1..Len(rest) :
                                  DateLess(h.date, rest[i].date)})
         IN  SubSeq(rest, 1, k) \o <<h>> \o SubSeq(rest, k + 1, Len(rest))

\* The orders in which glob may list a set of files.
GlobOrders(files) ==
    {o \in [1..Cardinality(files) -> files] :
        \A i, j \in 1..Cardinality(files) : i # j => o[i] # o[j]}

\* A verify that also fails on orphaned HTML files and index entries.
VerifyResultStrict(src, html, doc) ==
    IF ~doc.file THEN FALSE
    ELSE LET md_files == {PathStem(f) : f \in {g \in src : EndsWith(g, DotMd)}}
             html_files == {PathStem(h) : h \in {g \in html : EndsWith(g, DotHtml)}}
             existing == ExistingPosts(doc)
             index_entries ==
                 {PathStem(doc.entries[existing[k]].href) : k \in DOMAIN existing}
         IN  md_files = html_files /\ md_files = index_entries

\* verify_blog_integrity
VerifyResult(src, html, doc) ==
    IF ~doc.file THEN FALSE
    ELSE LET md_files == {PathStem(f) : f \in {g \in src : EndsWith(g, DotMd)}}
             html_files == {PathStem(h) : h \in {g \in html : EndsWith(g, DotHtml)}}
             existing == ExistingPosts(doc)
             index_entries ==
                 {PathStem(doc.entries[existing[k]].href) : k \in DOMAIN existing}
         IN  /\ \A md_name \in md_files : md_name \in html_files
             /\ \A md_name \in md_files : md_name \in index_entries

\* The user saves a new markdown file in posts/.
CreateSource(f) ==
    /\ f \notin sources
    /\ Cardinality(sources) < MaxSources
    /\ sources' = sources \cup {f}
    /\ last' = Did("edit", index, <<>>, NoUpdate(index, "created"), FALSE)
    /\ UNCHANGED <<blog, index>>

\* The user removes a markdown file from posts/.
DeleteSource(f) ==
    /\ f \in sources
    /\ sources' = sources \ {f}
    /\ last' = Did("edit", index, <<>>, NoUpdate(index, "deleted"), FALSE)
    /\ UNCHANGED <<blog, index>>

\* generate_blog_post on a markdown file that can be read, wherever it
\* lies: the page blog/<name>.html is written and the index left alone.
GenerateBlogPost(f, c) ==
    /\ blog' = blog \cup {HtmlFilename(f)}
    /\ last' = Did("generate", index, <<ParseMarkdownFile(f, c)>>,
                   NoUpdate(index, "generated"), FALSE)
    /\ UNCHANGED <<sources, index>>

\* A process_single_file that updates the index before the page is written:
\* when the write of blog/<name>.html raises, the index has the entry already.
ProcessSingleFileIndexFirst(f, given, readable, c) ==
    /\ UNCHANGED sources
    /\ IF ~given /\ f \notin sources
       THEN /\ last' = Did("process", index, <<>>, NoUpdate(index, "not found"), FALSE)
            /\ UNCHANGED <<blog, index>>
       ELSE LET post == ParseMarkdownFile(f, c)
                r == AddOrUpdate(index, post)
            IN  /\ blog' = IF readable THEN blog \cup {HtmlFilename(f)} ELSE blog
                /\ index' = r.index
                /\ last' = Did("process", index, <<post>>, r, FALSE)

\* process_single_file on a path whose file name is f: the path is looked up
\* as it is given (it exists or not, in posts/ or anywhere else) and, only
\* when it is not there, in posts/; generate_blog_post parses the file and
\* writes blog/<name>.html (a file that cannot be read, or a page that
\* cannot be written, raises and ends the run with nothing changed), then
\* add_or_update_blog_post updates the index.
ProcessSingleFile(f, given, readable, c) ==
    /\ UNCHANGED sources
    /\ IF ~given /\ f \notin sources
       THEN /\ last' = Did("process", index, <<>>, NoUpdate(index, "not found"), FALSE)
            /\ UNCHANGED <<blog, index>>
       ELSE IF ~readable
       THEN /\ last' = Did("process", index, <<>>, NoUpdate(index, "raised"), FALSE)
            /\ UNCHANGED <<blog, index>>
       ELSE LET post == ParseMarkdownFile(f, c)
                r == AddOrUpdate(index, post)
            IN  /\ blog' = blog \cup {HtmlFilename(f)}
                /\ index' = r.index
                /\ last' = Did("process", index, <<post>>, r, FALSE)

\* rebuild_all: every file glob lists is rendered (one that raises is
\* reported and skipped), the posts are sorted, and unless there is none
\* rebuild_blog_section rewrites the section.
RebuildAll(readable, order, content) ==
    LET rendered == [i \in 1..Len(order) |->
                         ParseMarkdownFile(order[i], content[order[i]])]
        posts == SortByDateDesc(rendered)
        r == RebuildSection(index, posts)
    IN  /\ blog' = blog \cup {HtmlFilename(f) : f \in readable}
        /\ IF rendered # <<>>
           THEN /\ index' = r.index
                /\ last' = Did("rebuildall", index, rendered, r, FALSE)
           ELSE /\ index' = index
                /\ last' = Did("rebuildall", index, <<>>, NoUpdate(index, "no posts"),
                             FALSE)
        /\ UNCHANGED sources

VerifyBlogIntegrity ==
    /\ last' = Did("verify", index, <<>>, NoUpdate(index, "verified"),
                   VerifyResult(sources, blog, index))
    /\ UNCHANGED <<sources, blog, index>>

Init ==
    /\ sources = {}
    /\ blog = {}
    /\ index \in EmptyIndexes
    /\ last = Nothing

Next ==
    \/ \E f \in SiteFiles : CreateSource(f)
    \/ \E f \in SiteFiles : DeleteSource(f)
    \/ \E f \in SiteFiles, c \in SiteContents : GenerateBlogPost(f, c)
    \/ \E f \in SiteFiles, given, readable \in BOOLEAN, c \in SiteContents :
          ProcessSingleFile(f, given, readable, c)
    \/ \E readable \in SUBSET sources :
          \E order \in GlobOrders(readable), content \in [readable -> SiteContents] :
             RebuildAll(readable, order, content)
    \/ VerifyBlogIntegrity

Spec == Init /\ [][Next]_vars

----------------------------------------------------------------------------
(* File names alone: one markdown file, processed into an index that has an *)
(* empty blog section.                                                      *)

Chars == {"a", ".", "m", "d"}

\* "a" followed by up to MaxStem - 1 more characters, then ".md".
StemNames ==
    {MdName(<<"a">> \o s) :
        s \in UNION {[1..n -> Chars] : n \in 0..(MaxStem - 1)}}

InitNames ==
    /\ \E f \in StemNames : sources = {f}
    /\ blog = {}
    /\ index = IndexDoc(TRUE, TRUE, TRUE, TRUE, <<>>)
    /\ last = Nothing

NextNames ==
    \E f \in sources, c \in SiteContents : ProcessSingleFile(f, FALSE, TRUE, c)

SpecNames == InitNames /\ [][NextNames]_vars

----------------------------------------------------------------------------
(* What the claims speak of. *)

\* The index file exists and has a blog section.
Usable(doc) == doc.file /\ doc.section

\* The post's output file name is the key of an existing entry.
Matches(doc, post) == HtmlFilename(post.filename) \in DOMAIN ExistingPosts(doc)

\* The entry has a date element whose text parses.
DateParses(e) == e.time # NoTime /\ IsIsoDate(ParseDisplayDate(e.time))
EntryDay(e) == ParseDisplayDate(e.time).n

\* Every date parses and no entry is older than one after it.
DatesSorted(entries) ==
    /\ \A i \in 1..Len(entries) : DateParses(entries[i])
    /\ \A i, j \in 1..Len(entries) :
          i < j => EntryDay(entries[i]) >= EntryDay(entries[j])

\* No comparison of the scan finds an entry strictly earlier than the post.
NoneEarlier(doc, post) ==
    ~\E i \in 1..Len(doc.entries) :
        /\ IsIsoDate(post.date)
        /\ DateParses(doc.entries[i])
        /\ post.date.n > EntryDay(doc.entries[i])

\* The entries that have a link.
Linked(doc) == {i \in 1..Len(doc.entries) : doc.entries[i].href # <<>>}

----------------------------------------------------------------------------
(* Claims about add_or_update_blog_post, under SpecReconcile. *)

\* C1: when the entries are sorted by date, newest first, and a post with a
\* valid date has no entry yet, add_or_update_blog_post adds exactly one
\* entry and the entries are still sorted newest first.
C1_InsertKeepsSorted ==
    (/\ last.op = "add" /\ last.report = "added"
     /\ DatesSorted(last.pre.entries))
    => /\ Len(index.entries) = Len(last.pre.entries) + 1
       /\ DatesSorted(index.entries)

\* C7 as stated: in the no-match case, when no entry is found strictly
\* earlier than the post (a post whose own date does not parse finds none),
\* the new entry goes directly after the heading if there is one, and at the
\* end of the section otherwise.
C7_AfterHeadingOrAtEnd ==
    (/\ last.op = "add"
     /\ \/ last.report = "added at end"
        \/ /\ last.report = "added"
           /\ ~\E i \in 1..Len(last.pre.entries) :
                 /\ DateParses(last.pre.entries[i])
                 /\ EntryDay(index.entries[last.at])
                       > EntryDay(last.pre.entries[i]))
    => /\ last.at = IF last.pre.heading THEN 1 ELSE Len(last.pre.entries) + 1
       /\ index.entries =
             InsertBefore(last.pre.entries, last.at, index.entries[last.at])

\* C7 amended: in the no-match case, when no entry is found strictly earlier
\* than the post, the new entry goes directly after the heading if there is
\* one and the post's own date parses, and at the end of the section
\* otherwise (no heading, or a post whose date does not parse).
C7_AfterHeadingIfDateParses ==
    \A post \in Posts :
        (Usable(index) /\ ~Matches(index, post) /\ NoneEarlier(index, post))
        => AddOrUpdate(index, post).index.entries =
              InsertBefore(index.entries,
                           IF index.heading /\ IsIsoDate(post.date) THEN 1
                           ELSE Len(index.entries) + 1,
                           NewArticle(post))

\* A post older than every entry was put first, right after the heading.
C7_Witness ==
    /\ last.op = "add" /\ last.report = "added" /\ last.at = 1
    /\ index.heading
    /\ Len(index.entries) >= 2
    /\ \A i \in 2..Len(index.entries) :
          /\ DateParses(index.entries[i])
          /\ EntryDay(index.entries[i]) >= EntryDay(index.entries[1])

\* C9: in the insertion scan an entry whose date does not parse, or that has
\* no date element, is passed over: the call still ends Persisted with
\* exactly one entry added, placed before the first of the entries with a
\* parsable date that is strictly earlier, or at the fallback place when
\* there is none.
C9_UnparsableDatesSkipped ==
    \A post \in Posts :
        (Usable(index) /\ ~Matches(index, post) /\ IsIsoDate(post.date))
        => LET r == AddOrUpdate(index, post)
               earlier == {i \in 1..Len(index.entries) :
                              /\ DateParses(index.entries[i])
                              /\ EntryDay(index.entries[i]) < post.date.n}
               place == IF earlier # {}
                        THEN CHOOSE i \in earlier : \A j \in earlier : i <= j
                        ELSE IF index.heading THEN 1
                        ELSE Len(index.entries) + 1
           IN  /\ r.terminal = "Persisted"
               /\ r.index.entries =
                     InsertBefore(index.entries, place, NewArticle(post))

\* An entry was inserted before an earlier one that the scan reached only
\* after passing an entry whose date does not parse.
C9_Witness ==
    /\ last.op = "add" /\ last.report = "added"
    /\ 1 < last.at /\ last.at < Len(index.entries)
    /\ \E i \in 1..(last.at - 1) : ~DateParses(index.entries[i])
    /\ DateParses(index.entries[last.at + 1])
    /\ EntryDay(index.entries[last.at + 1]) < EntryDay(index.entries[last.at])

----------------------------------------------------------------------------
(* Claims about both index updates, under SpecRebuild. *)

\* C4: add_or_update_blog_post and rebuild_blog_section end Persisted, with
\* one write of the index file, or Failed, with none and the file as it was;
\* without an index file, or without a blog section in it, they end Failed.
C4_PersistedOrFailed ==
    \A r \in {AddOrUpdate(index, post) : post \in Posts}
             \cup {RebuildSection(index, posts) : posts \in RebuildLists} :
        /\ r.terminal \in {"Persisted", "Failed"}
        /\ r.terminal = "Persisted" => r.writes = 1
        /\ r.terminal = "Failed" => r.writes = 0 /\ r.index = index
        /\ ~Usable(index) => r.terminal = "Failed"

\* A call found an index file without a blog section and left it alone.
C4_Witness ==
    /\ last.op \in {"add", "rebuild"}
    /\ last.terminal = "Failed" /\ last.writes = 0
    /\ last.pre = NoBlogSection /\ index = NoBlogSection

\* C5: rebuild_blog_section leaves the heading, if there was one, followed
\* by one entry per post in the order given and nothing else, and a second
\* run with the same posts leaves the same section again.
C5_RebuildIdempotent ==
    \A posts \in PostLists(SmallPosts, MaxRebuild) :
        Usable(index)
        => LET once == RebuildSection(index, posts).index
               twice == RebuildSection(once, posts).index
           IN  /\ once.heading = index.heading
               /\ once.entries = [i \in 1..Len(posts) |-> NewArticle(posts[i])]
               /\ twice = once

\* A rebuild wrote a section of at least two entries over one that had
\* entries already.
C5_Witness ==
    /\ last.op = "rebuild" /\ last.terminal = "Persisted"
    /\ last.pre.entries # <<>>
    /\ index.heading
    /\ Len(index.entries) >= 2

\* C10: no two entries of the blog section link to one output file name.
C10_NoDuplicateLinks ==
    \A i, j \in Linked(index) :
        i # j => PathName(index.entries[i].href) # PathName(index.entries[j].href)

----------------------------------------------------------------------------
(* Claims about the site, under Spec. *)

\* C2: when the post's output file name matches an entry,
\* add_or_update_blog_post writes an index in which that entry is replaced,
\* at its place, by the entry built from the post, the others unchanged.
C2_UpdateReplacesEntry ==
    (last.op = "process" /\ last.report = "updated")
    => index.entries =
          ReplaceWith(last.pre.entries, last.at, NewArticle(last.rendered[1]))

\* The markdown files the last command rendered.
RenderedFiles == {last.rendered[i].filename : i \in 1..Len(last.rendered)}

\* C3 as stated: after a successful process_single_file or rebuild_all every
\* markdown file of posts/ has exactly one entry, by output file name, and
\* every entry has a markdown file.
C3_EntriesMatchSources ==
    (last.op \in {"process", "rebuildall"} /\ last.terminal = "Persisted")
    => /\ \A f \in sources :
             Cardinality({i \in Linked(index) :
                 PathName(index.entries[i].href) = HtmlFilename(f)}) = 1
       /\ \A i \in Linked(index) :
             \E f \in sources : PathName(index.entries[i].href) = HtmlFilename(f)

\* C3 amended: after a successful process_single_file the processed file has
\* an entry, by output file name; after a successful rebuild_all the entries
\* are, one for one, the links of the markdown files that were rendered.
C3_EntriesMatchRendered ==
    /\ (last.op = "process" /\ last.terminal = "Persisted")
       => \A f \in RenderedFiles :
             \E i \in Linked(index) :
                 PathName(index.entries[i].href) = HtmlFilename(f)
    /\ (last.op = "rebuildall" /\ last.terminal = "Persisted")
       => /\ RenderedFiles \subseteq sources
          /\ Len(index.entries) = Cardinality(RenderedFiles)
          /\ {index.entries[i].href : i \in 1..Len(index.entries)}
                = {Url(f) : f \in RenderedFiles}

\* rebuild_all rendered two markdown files and rewrote the section.
C3_Witness ==
    /\ last.op = "rebuildall" /\ last.terminal = "Persisted"
    /\ Cardinality(RenderedFiles) >= 2
    /\ RenderedFiles = sources

\* No markdown file lacks an HTML file, or an index entry, of its stem.
NothingMissing ==
    \A f \in sources :
        /\ \E h \in blog : PathStem(h) = PathStem(f)
        /\ \E i \in Linked(index) :
              PathStem(index.entries[i].href) = PathStem(f)

\* C6 as stated: verify_blog_integrity returns True exactly when no markdown
\* file lacks an HTML file or an index entry of its stem, a missing index file
\* included.
C6_PassIffNothingMissing ==
    last.op = "verify" => (last.result <=> NothingMissing)

\* C6 amended: verify_blog_integrity returns True exactly when the index file
\* exists and no markdown file lacks an HTML file or an index entry of its
\* stem; orphaned HTML files and entries do not count.
C6_PassIffIndexAndNothingMissing ==
    last.op = "verify" => (last.result <=> (index.file /\ NothingMissing))

\* verify passed on a site that has a markdown file, an orphaned HTML file
\* and an orphaned index entry.
C6_Witness ==
    /\ last.op = "verify" /\ last.result
    /\ sources # {}
    /\ \E h \in blog : \A f \in sources : PathStem(h) # PathStem(f)
    /\ \E i \in Linked(index) :
          \A f \in sources : PathStem(index.entries[i].href) # PathStem(f)

\* C11: the page of a post is written before the index is changed for it:
\* on a site that started with no entries, whatever process_single_file and
\* rebuild_all runs there were, failed ones included, the file every entry
\* links to is in blog/.
C11_LinkTargetsRendered ==
    \A i \in Linked(index) : PathName(index.entries[i].href) \in blog

\* A rebuild_all in which a markdown file raised and was skipped wrote an
\* index with entries, and a markdown file of posts/ has no page in blog/.
C11_Witness ==
    /\ last.op = "rebuildall" /\ last.terminal = "Persisted"
    /\ Len(last.rendered) < Cardinality(sources)
    /\ Linked(index) # {}
    /\ \E f \in sources : HtmlFilename(f) \notin blog

----------------------------------------------------------------------------
(* The claim about file names, under SpecNames. *)

\* C8: the stem of the output file name read back from the link recorded in
\* the index is the stem of the markdown file the entry was made from.
C8_StemRoundTrip ==
    (last.op = "process" /\ last.terminal = "Persisted")
    => \A k \in DOMAIN ExistingPosts(index) :
          /\ PathStem(k) = PathStem(last.rendered[1].filename)
          /\ PathStem(index.entries[ExistingPosts(index)[k]].href)
                = PathStem(last.rendered[1].filename)

====
